---- MODULE Spec2Model ----
(***************************************************************************)
(* Model of lpp::Class<CppClass> (src/LuaCpp/Details/Class.hpp): the       *)
(* per-class statics className / functions / valid, the Lua registry of    *)
(* metatables the constructor writes into, the Functions stores it appends *)
(* to, and the userdata created by newInstance and copy.                   *)
(***************************************************************************)
EXTENDS Integers, Sequences, FiniteSets, TLC

VARIABLES className, functions, valid, registry, store, heap, proc, nreg,
          completed, passed, last

vars == <<className, functions, valid, registry, store, heap, proc, nreg,
          completed, passed, last>>

(* ------------------------------ bounds --------------------------------- *)
\* register calls explored in the lifecycle and object specifications
MaxRegs == 2
\* userdata objects kept on the heap
MaxInst == 2
\* members supplied to the one register call of the binder specification
MaxMems == 2
\* largest constructor / setter argument
MaxVal == 1
\* register calls and userdata objects of the object specification
MaxObjRegs == 1
MaxObjInst == 1

(* ------------------------------ domains -------------------------------- *)
\* instantiations Class<T1>, Class<T2>
Classes == {"T1", "T2"}
\* names handed to the constructor as n
MetaNames == {"A", "B"}
\* Functions collections handed to the constructor as fmap
Stores == {"F1", "F2"}
\* member pointers of the bound native class
MemberPtrs == {"x", "y", "k", "getSum", "bump"}
Vals == 0..MaxVal

\* which addMember overload the C++ type of a member pointer selects
Shape(mem) ==
    CASE mem = "bump"   -> "MutatingMethod"
      [] mem = "getSum" -> "ReadOnlyMethod"
      [] mem = "k"      -> "ImmutableField"
      [] OTHER          -> "MutableField"

(* ------------------------- Lua values and tables ----------------------- *)
Nil == [kind |-> "nil", a |-> "", b |-> 0]
\* a reference to the metatable registered under n
TableRef(n) == [kind |-> "table", a |-> n, b |-> 0]
\* the C function &newInstance<CstrArgs...> of Class<T>
NewInstanceFn(T) == [kind |-> "cfunction", a |-> T, b |-> 0]
\* the closure pushed by the CppFunction stored at functions[idx]
Closure(fmap, idx) == [kind |-> "closure", a |-> fmap, b |-> idx]

EmptyTable == [k \in {} |-> Nil]

rawget(t, k) == IF k \in DOMAIN t THEN t[k] ELSE Nil

rawset(t, k, v) == [kk \in (DOMAIN t) \cup {k} |-> IF kk = k THEN v ELSE t[kk]]

\* luaL_getmetatable: the registry field, nil when no metatable has that name
HasMetatable(n) == n \in DOMAIN registry

(* --------------------------- native class ------------------------------ *)
\* CppClass(a, b) of the bound class: two mutable ints and a const int
CppClass(a, b) == [x |-> a, y |-> b, k |-> a]

\* CppClass(const CppClass&)
CppClassCopy(o) == [x |-> o.x, y |-> o.y, k |-> o.k]

(* --------------------------- member binder ----------------------------- *)
emplace_back(st, fmap, c) == [st EXCEPT ![fmap] = Append(@, c)]

SetterName(name) == "set_" \o name

\* one lua_pushstring / emplace_back(new CppFunction) / lua_rawset triple
bind(T, fmap, s, key, kind, mem) ==
    [tbl |-> rawset(s.tbl, key, Closure(fmap, Len(s.st[fmap]) + 1)),
     st  |-> emplace_back(s.st, fmap, [cls |-> T, kind |-> kind, mem |-> mem])]

addMethod(T, fmap, s, name, mem) == bind(T, fmap, s, name, "method", mem)

addConstMethod(T, fmap, s, name, mem) == bind(T, fmap, s, name, "method", mem)

\* variant: the getter alone
addMutableFieldGetterOnly(T, fmap, s, name, mem) == bind(T, fmap, s, name, "getter", mem)

addMutableField(T, fmap, s, name, mem) ==
    bind(T, fmap, bind(T, fmap, s, SetterName(name), "setter", mem),
         name, "getter", mem)

\* variant: a setter is synthesized for a const member too
addImmutableFieldWithSetter(T, fmap, s, name, mem) ==
    bind(T, fmap, bind(T, fmap, s, SetterName(name), "setter", mem),
         name, "getter", mem)

addImmutableField(T, fmap, s, name, mem) == bind(T, fmap, s, name, "getter", mem)

addMember(T, fmap, s, name, mem) ==
    CASE Shape(mem) = "MutatingMethod" -> addMethod(T, fmap, s, name, mem)
      [] Shape(mem) = "ReadOnlyMethod" -> addConstMethod(T, fmap, s, name, mem)
      [] Shape(mem) = "MutableField"   -> addMutableField(T, fmap, s, name, mem)
      [] OTHER                         -> addImmutableField(T, fmap, s, name, mem)

\* variant: the recursion binds the tail before the head
RECURSIVE addMembersTailFirst(_, _, _, _)
addMembersTailFirst(T, fmap, s, mems) ==
    IF mems = <<>> THEN s
    ELSE addMember(T, fmap, addMembersTailFirst(T, fmap, s, Tail(mems)),
                   Head(mems).name, Head(mems).mem)

RECURSIVE addMembers(_, _, _, _)
addMembers(T, fmap, s, mems) ==
    IF mems = <<>> THEN s
    ELSE addMembers(T, fmap, addMember(T, fmap, s, Head(mems).name, Head(mems).mem),
                    Tail(mems))

(* ------------------------------- events -------------------------------- *)
NoEvent ==
    [op |-> "none", cls |-> "", name |-> "", fmap |-> "", mems |-> <<>>,
     args |-> <<>>, inst |-> 0, key |-> "", val |-> 0, nret |-> 0]

(* ------------------------------ register ------------------------------- *)
\* variant: the name is kept once set (an init-once registry)
AssignNameOnce(T, n) == IF className[T] = "" THEN [className EXCEPT ![T] = n] ELSE className

\* className = n;  className is a static of the instantiation Class<T>
AssignName(T, n) == [className EXCEPT ![T] = n]

\* variant: one store pointer shared by every instantiation
AssignFunctionsShared(T, fmap) == [U \in Classes |-> fmap]

\* functions = &fmap;  functions is a static of the instantiation Class<T>
AssignFunctions(T, fmap) == [functions EXCEPT ![T] = fmap]

\* variant: valid is set before the metatable is touched
validSetEarly(T) == [valid EXCEPT ![T] = TRUE]

\* valid when the constructor does not reach its last statement
validOnAbort(T) == valid

\* Class<T>::Class(s, n, tuple<CstrArgs...>, fmap, mems...)
Class(T, n, fmap, mems) ==
    /\ proc = "running"
    /\ className' = AssignName(T, n)
    /\ functions' = AssignFunctions(T, fmap)
    /\ nreg' = nreg + 1
    /\ last' = [NoEvent EXCEPT !.op = "register", !.cls = T, !.name = n,
                               !.fmap = fmap, !.mems = mems]
    /\ IF HasMetatable(n)
       THEN LET t1 == rawset(registry[n], "__index", TableRef(n))
                t2 == rawset(t1, "new", NewInstanceFn(T))
                s  == addMembers(T, fmap, [tbl |-> t2, st |-> store], mems)
            IN  /\ registry' = [registry EXCEPT ![n] = s.tbl]
                /\ store' = s.st
                /\ valid' = [valid EXCEPT ![T] = TRUE]
                /\ completed' = [completed EXCEPT ![T] = TRUE]
                /\ passed' = [passed EXCEPT ![T] = n]
                /\ UNCHANGED <<heap, proc>>
       ELSE \* lua_rawset on the nil that luaL_getmetatable pushed
            /\ proc' \in {"aborted", "segfault"}
            /\ valid' = validOnAbort(T)
            /\ UNCHANGED <<registry, store, completed, passed, heap>>

(* --------------------------- instance factory -------------------------- *)
\* detail::getTuple<CstrArgs...>(s): the call's arguments, in stack order
getTuple(stack) == [i \in 1..Len(stack) |-> stack[i]]

\* variant: the arguments are expanded in reverse
factoryReversed(args) == CppClass(args[2], args[1])

\* new (addr) CppClass(std::get<N>(args)...)
factory(args) == CppClass(args[1], args[2])

\* variant: the instance takes the metatable the call came through
setmetatableOfCallee(T, via) == via

\* luaL_setmetatable(s, className.c_str()): the metatable named className, if any
setmetatable(T, via) == IF HasMetatable(className[T]) THEN className[T] ELSE ""

\* a script reaches newInstance<T> through a metatable whose "new" entry is it
Reachable(T, via) ==
    /\ HasMetatable(via)
    /\ rawget(registry[via], "new") = NewInstanceFn(T)

\* Class<T>::newInstance<CstrArgs...>(s), called as <via>.new(stack...)
newInstance(T, via, stack) ==
    /\ proc = "running"
    /\ Reachable(T, via)
    /\ Len(heap) < MaxInst
    /\ heap' = Append(heap, [cls |-> T, tag |-> setmetatable(T, via),
                             obj |-> factory(getTuple(stack))])
    /\ last' = [NoEvent EXCEPT !.op = "new", !.cls = T, !.name = via,
                               !.args = stack, !.inst = Len(heap) + 1, !.nret = 1]
    /\ UNCHANGED <<className, functions, valid, registry, store, proc, nreg,
                   completed, passed>>

\* Class<T>::copy(addrNew, other): other is heap[i], addrNew a fresh untagged buffer
copy(i) ==
    /\ proc = "running"
    /\ i \in 1..Len(heap)
    /\ Len(heap) < MaxInst
    /\ heap' = Append(heap, [cls |-> heap[i].cls, tag |-> "",
                             obj |-> CppClassCopy(heap[i].obj)])
    /\ last' = [NoEvent EXCEPT !.op = "copy", !.cls = heap[i].cls,
                               !.inst = Len(heap) + 1, !.val = i]
    /\ UNCHANGED <<className, functions, valid, registry, store, proc, nreg,
                   completed, passed>>

(* ------------------------- synthesized accessors ----------------------- *)
\* variant: the assignment is made to a copy
setterOnCopy(t, self, val) == self

\* [=](CppClass* self, T val) { self->*t = val; }
setter(t, self, val) == [self EXCEPT ![t] = val]

\* [=](const CppClass* self) { return self->*t; }
getter(t, self) == self[t]

\* what a script's  inst:key(...)  resolves to: the metatable's __index table entry
Lookup(inst, key) ==
    IF inst.tag = "" \/ ~HasMetatable(inst.tag) THEN Nil
    ELSE LET idx == rawget(registry[inst.tag], "__index")
         IN  IF idx.kind = "table" /\ HasMetatable(idx.a)
             THEN rawget(registry[idx.a], key)
             ELSE Nil

\* the CppFunction a closure value runs
Callee(e) == store[e.a][e.b]

\* a script calls  set_<f>(inst, v)  and the entry is a synthesized setter
InvokeSetter(i, key, v) ==
    /\ proc = "running"
    /\ i \in 1..Len(heap)
    /\ LET e == Lookup(heap[i], key)
       IN  /\ e.kind = "closure"
           /\ Callee(e).kind = "setter"
           /\ Callee(e).cls = heap[i].cls
           /\ heap' = [heap EXCEPT ![i].obj = setter(Callee(e).mem, @, v)]
           /\ last' = [NoEvent EXCEPT !.op = "set", !.cls = heap[i].cls, !.inst = i,
                                      !.key = key, !.val = v]
    /\ UNCHANGED <<className, functions, valid, registry, store, proc, nreg,
                   completed, passed>>

\* a script calls  <f>(inst)  and the entry is a synthesized getter
InvokeGetter(i, key) ==
    /\ proc = "running"
    /\ i \in 1..Len(heap)
    /\ LET e == Lookup(heap[i], key)
       IN  /\ e.kind = "closure"
           /\ Callee(e).kind = "getter"
           /\ Callee(e).cls = heap[i].cls
           /\ last' = [NoEvent EXCEPT !.op = "get", !.cls = heap[i].cls, !.inst = i,
                                      !.key = key, !.val = getter(Callee(e).mem, heap[i].obj),
                                      !.nret = 1]
    /\ UNCHANGED <<className, functions, valid, registry, store, heap, proc, nreg,
                   completed, passed>>

getName(T) == className[T]

isValid(T) == valid[T]

Init ==
    /\ className = [T \in Classes |-> ""]
    /\ functions = [T \in Classes |-> "nullptr"]
    /\ valid = [T \in Classes |-> FALSE]
    /\ \E S \in SUBSET MetaNames : registry = [n \in S |-> EmptyTable]
    /\ store = [f \in Stores |-> <<>>]
    /\ heap = <<>>
    /\ proc = "running"
    /\ nreg = 0
    /\ completed = [T \in Classes |-> FALSE]
    /\ passed = [T \in Classes |-> ""]
    /\ last = NoEvent

(* ---------------- lifecycle: registrations and constructions ----------- *)
\* member lists of the lifecycle runs: none, a mutable field, a method of the
\* same name
LifeMembers ==
    { <<>>,
      <<[name |-> "x", mem |-> "x"]>>,
      <<[name |-> "x", mem |-> "getSum"]>> }

Register ==
    /\ nreg < MaxRegs
    /\ \E T \in Classes, n \in MetaNames, fmap \in Stores, mems \in LifeMembers :
          Class(T, n, fmap, mems)

New == \E T \in Classes, via \in MetaNames : newInstance(T, via, <<0, 1>>)

Copy == \E i \in 1..Len(heap) : copy(i)

Next == Register \/ New \/ Copy

Spec == Init /\ [][Next]_vars

(* ---------------- binder: one register call, any member list ----------- *)
BindNames == {"x", "y", "set_x", "new"}

BindPtrs == {"x", "k", "getSum", "bump"}

Member == [name : BindNames, mem : BindPtrs]

RECURSIVE SeqsUpTo(_, _)
SeqsUpTo(S, n) ==
    IF n = 0 THEN {<<>>}
    ELSE LET shorter == SeqsUpTo(S, n - 1)
         IN  shorter \cup {Append(q, e) : q \in {r \in shorter : Len(r) = n - 1}, e \in S}

\* an earlier registration under the same name, by either class into either store
BindPrior ==
    /\ nreg = 0
    /\ \E T \in Classes, fmap \in Stores, mems \in LifeMembers : Class(T, "A", fmap, mems)

\* the register call under study, on a fresh table or after an earlier registration
BindRegister ==
    /\ \/ nreg = 0
       \/ nreg = 1 /\ last.op = "register" /\ last.mems \in LifeMembers
    /\ \E mems \in SeqsUpTo(Member, MaxMems) : Class("T1", "A", "F1", mems)

NextBind == BindPrior \/ BindRegister

SpecBind == Init /\ [][NextBind]_vars

(* ---------------- objects: construction and accessor calls ------------- *)
ObjMembers ==
    { <<[name |-> "x", mem |-> "x"], [name |-> "getSum", mem |-> "getSum"]>>,
      <<[name |-> "x", mem |-> "x"], [name |-> "y", mem |-> "y"]>>,
      <<[name |-> "x", mem |-> "x"], [name |-> "x", mem |-> "k"]>> }

ObjKeys == {"x", "y", "set_x", "set_y"}

ObjRegister ==
    /\ nreg < MaxObjRegs
    /\ \E mems \in ObjMembers : Class("T1", "A", "F1", mems)

ObjNew ==
    /\ Len(heap) < MaxObjInst
    /\ \E a \in Vals, b \in Vals : newInstance("T1", "A", <<a, b>>)

CallSetter == \E i \in 1..Len(heap), key \in ObjKeys, v \in Vals : InvokeSetter(i, key, v)

CallGetter == \E i \in 1..Len(heap), key \in ObjKeys : InvokeGetter(i, key)

NextObj == ObjRegister \/ ObjNew \/ CallSetter \/ CallGetter

SpecObj == Init /\ [][NextObj]_vars

(* ========================== properties ================================= *)
Fields == {"x", "y", "k"}

\* a step that is a register call which ran to completion
Registered == last'.op = "register" /\ proc' = "running"

\* the keys one member descriptor writes, in the order it writes them
Expand(m) ==
    CASE Shape(m.mem) = "MutableField" ->
             << [key |-> SetterName(m.name), kind |-> "setter", mem |-> m.mem],
                [key |-> m.name, kind |-> "getter", mem |-> m.mem] >>
      [] Shape(m.mem) = "ImmutableField" ->
             << [key |-> m.name, kind |-> "getter", mem |-> m.mem] >>
      [] OTHER ->
             << [key |-> m.name, kind |-> "method", mem |-> m.mem] >>

RECURSIVE Bindings(_)
Bindings(mems) == IF mems = <<>> THEN <<>> ELSE Expand(Head(mems)) \o Bindings(Tail(mems))

BoundKeys(mems) == {Bindings(mems)[j].key : j \in 1..Len(Bindings(mems))}

Max(S) == CHOOSE m \in S : \A o \in S : o <= m

(* C1: while the process runs, registeredName(T) (getName) is the empty     *)
(* string for every class whose register call has not completed, and is    *)
(* exactly the string passed to the latest completed register call for T   *)
(* otherwise.                                                              *)
C1_RegisteredName ==
    proc = "running" =>
        \A T \in Classes : getName(T) = IF completed[T] THEN passed[T] ELSE ""

\* T1 was registered as "A" and then again as "B"; T2 never was
C1_Witness ==
    /\ proc = "running"
    /\ completed["T1"] /\ ~completed["T2"]
    /\ getName("T1") = "B" /\ getName("T2") = ""
    /\ HasMetatable("A") /\ rawget(registry["A"], "new") = NewInstanceFn("T1")

\* the metatable named in the last register call holds __index, new and an
\* entry for every key of the members supplied
FullyBound ==
    /\ HasMetatable(last.name)
    /\ {"__index", "new"} \cup BoundKeys(last.mems) \subseteq DOMAIN registry[last.name]

(* C2: the valid flag read by isValid(T) is false initially; it turns true  *)
(* only in a register call for T that ran to completion (metatable found,  *)
(* __index and new set, every supplied member bound); and no step of       *)
(* register, new or copy turns it back to false.                           *)
C2_ValidFlag ==
    /\ \A T \in Classes : ~isValid(T)
    /\ [][\A T \in Classes :
            /\ isValid(T) => isValid(T)'
            /\ (~isValid(T) /\ isValid(T)') =>
                  /\ Registered
                  /\ last'.cls = T
                  /\ FullyBound']_vars

\* T1 stayed valid across a construction and a later register call that failed
C2_Witness ==
    /\ isValid("T1") /\ ~isValid("T2")
    /\ proc = "segfault"
    /\ last.op = "register"
    /\ Len(heap) >= 1

(* C8: register obtains the runtime's type tag for name if one exists and   *)
(* creates it if none exists; in both cases, once register has been called *)
(* a type tag for name exists, its __index entry is the tag itself and its *)
(* new entry is the constructor entry point.                               *)
C8_ObtainsOrCreates ==
    last.op = "register" =>
        /\ HasMetatable(last.name)
        /\ rawget(registry[last.name], "__index") = TableRef(last.name)
        /\ rawget(registry[last.name], "new") = NewInstanceFn(last.cls)

(* C10: a new call changes no registry state (className, valid, functions,  *)
(* the stores, the metatables), leaves every earlier instance as it was,   *)
(* and tags the one instance it adds with the metatable of the name given  *)
(* by the most recent register call for its class.                         *)
C10_NewReadsNameAtCall ==
    [][last'.op = "new" /\ Len(heap') = Len(heap) + 1 =>
          /\ UNCHANGED <<className, valid, functions, store, registry>>
          /\ \A i \in 1..Len(heap) : heap'[i] = heap[i]
          /\ HasMetatable(passed[last'.cls])
          /\ heap'[Len(heap')].tag = passed[last'.cls]]_vars

\* two instances of T1, made through the same table "A" before and after T1
\* was registered again as "B"
C10_Witness ==
    /\ Len(heap) = 2
    /\ heap[1].cls = "T1" /\ heap[2].cls = "T1"
    /\ heap[1].tag = "A" /\ heap[2].tag = "B"
    /\ last.op = "new" /\ last.name = "A"

\* some other class is registered under the name of the last register call
SharesName(T) == \E U \in Classes \ {T} : completed[U] /\ passed[U] = last'.name

(* C6 (as stated): when a class is registered under the name another class  *)
(* is registered under, the two bindings do not touch each other: the      *)
(* registration changes no entry of the other class's dispatch table and   *)
(* appends nothing to the other class's callable store.                    *)
C6_NoCrossTalk ==
    [][Registered /\ SharesName(last'.cls) =>
          \A U \in Classes \ {last'.cls} :
              (completed[U] /\ passed[U] = last'.name) =>
                  /\ \A k \in DOMAIN registry[passed[U]] :
                        registry'[passed[U]][k] = registry[passed[U]][k]
                  /\ store'[functions[U]] = store[functions[U]]]_vars

(* C6 (amended): classes registered under one name share the one type tag   *)
(* of that name. A register call for T rewrites the tag's new entry (so it *)
(* is no longer another class's constructor) and the keys of the members   *)
(* it binds, and leaves every other entry and every other tag alone; it    *)
(* leaves className, valid and functions of every other class unchanged;   *)
(* it only appends to the store it was given and touches no other store.   *)
C6_SharedTag ==
    [][Registered =>
          LET T == last'.cls
              n == last'.name
              fmap == last'.fmap
              touched == {"__index", "new"} \cup BoundKeys(last'.mems)
          IN  /\ \A U \in Classes \ {T} :
                    /\ className'[U] = className[U]
                    /\ valid'[U] = valid[U]
                    /\ functions'[U] = functions[U]
                    /\ rawget(registry'[n], "new") # NewInstanceFn(U)
              /\ \A f \in Stores \ {fmap} : store'[f] = store[f]
              /\ Len(store'[fmap]) >= Len(store[fmap])
              /\ SubSeq(store'[fmap], 1, Len(store[fmap])) = store[fmap]
              /\ \A m \in DOMAIN registry \ {n} : registry'[m] = registry[m]
              /\ \A k \in DOMAIN registry[n] \ touched :
                    registry'[n][k] = registry[n][k]]_vars

\* T1 bound field x under "A" into F1, then T2 was registered under "A" with
\* F2: the one table holds T2's constructor beside T1's accessors
C6_Witness ==
    /\ proc = "running"
    /\ completed["T1"] /\ completed["T2"]
    /\ passed["T1"] = "A" /\ passed["T2"] = "A"
    /\ functions["T1"] = "F1" /\ functions["T2"] = "F2"
    /\ last.op = "register" /\ last.cls = "T2"
    /\ rawget(registry["A"], "new") = NewInstanceFn("T2")
    /\ rawget(registry["A"], "set_x") = Closure("F1", 1)
    /\ store["F1"][1].cls = "T1"

(* C7: within one register call that completes, members are bound in the    *)
(* order supplied (their wrappers are appended to the store in that        *)
(* order), and every key the call writes ends up referring to the wrapper  *)
(* bound last under that key; the call raises no error.                    *)
C7_LastWriteWins ==
    [][Registered =>
          LET T == last'.cls
              n == last'.name
              fmap == last'.fmap
              b == Bindings(last'.mems)
              base == Len(store[fmap])
          IN  /\ Len(store'[fmap]) = base + Len(b)
              /\ \A j \in 1..Len(b) :
                    store'[fmap][base + j] =
                        [cls |-> T, kind |-> b[j].kind, mem |-> b[j].mem]
              /\ \A k \in BoundKeys(last'.mems) :
                    rawget(registry'[n], k) =
                        Closure(fmap, base + Max({j \in 1..Len(b) : b[j].key = k}))]_vars

\* "x" bound first as a mutable field, then as a method: the entry is the method
C7_Witness ==
    /\ proc = "running"
    /\ last.op = "register"
    /\ last.mems = <<[name |-> "x", mem |-> "x"], [name |-> "x", mem |-> "getSum"]>>
    /\ rawget(registry["A"], "x") = Closure("F1", 3)
    /\ store["F1"][3].kind = "method"
    /\ rawget(registry["A"], "set_x") = Closure("F1", 1)

\* names pairwise distinct, none a generated setter name, none new or __index
DistinctNames(mems) ==
    /\ \A i, j \in 1..Len(mems) : i # j => mems[i].name # mems[j].name
    /\ \A i, j \in 1..Len(mems) :
          Shape(mems[j].mem) = "MutableField" => mems[i].name # SetterName(mems[j].name)
    /\ \A i \in 1..Len(mems) : mems[i].name \notin {"new", "__index"}

\* entries a member descriptor is to produce
Entries(m) == IF Shape(m.mem) = "MutableField" THEN 2 ELSE 1

RECURSIVE TotalEntries(_)
TotalEntries(mems) ==
    IF mems = <<>> THEN 0 ELSE Entries(Head(mems)) + TotalEntries(Tail(mems))

\* the keys of t whose value is a wrapper appended to fmap after position base
FreshKeys(t, fmap, base) ==
    {k \in DOMAIN t : t[k].kind = "closure" /\ t[k].a = fmap /\ t[k].b > base}

(* C9: for a completed register call whose member names are pairwise        *)
(* distinct and distinct from every generated set_ name, from new and from *)
(* __index: a method adds one entry under its name, a mutable field two    *)
(* (name -> getter, set_name -> setter), an immutable field one (name ->   *)
(* getter); every added entry has a wrapper of its own, appended to the    *)
(* store the call was given, and nothing else is appended.                 *)
C9_EntriesPerMember ==
    [][Registered /\ DistinctNames(last'.mems) =>
          LET T == last'.cls
              n == last'.name
              fmap == last'.fmap
              mems == last'.mems
              base == Len(store[fmap])
              t == registry'[n]
              fresh == FreshKeys(t, fmap, base)
              wrapper(k) == store'[fmap][t[k].b]
          IN  /\ Len(store'[fmap]) = base + TotalEntries(mems)
              /\ Cardinality(fresh) = TotalEntries(mems)
              /\ \A k1, k2 \in fresh : k1 # k2 => t[k1] # t[k2]
              /\ \A i \in 1..Len(mems) :
                    LET nm == mems[i].name
                        sh == Shape(mems[i].mem)
                    IN  /\ nm \in fresh
                        /\ wrapper(nm).mem = mems[i].mem
                        /\ wrapper(nm).cls = T
                        /\ sh \in {"MutatingMethod", "ReadOnlyMethod"} =>
                               wrapper(nm).kind = "method"
                        /\ sh \in {"MutableField", "ImmutableField"} =>
                               wrapper(nm).kind = "getter"
                        /\ sh = "MutableField" =>
                               /\ SetterName(nm) \in fresh
                               /\ wrapper(SetterName(nm)).kind = "setter"
                               /\ wrapper(SetterName(nm)).mem = mems[i].mem
              /\ DOMAIN t = DOMAIN registry[n] \cup {"__index", "new"} \cup fresh]_vars

\* a mutable field and a method under distinct names: three entries, three wrappers
C9_Witness ==
    /\ proc = "running"
    /\ last.op = "register"
    /\ last.mems = <<[name |-> "x", mem |-> "x"], [name |-> "y", mem |-> "getSum"]>>
    /\ DOMAIN registry["A"] = {"__index", "new", "set_x", "x", "y"}
    /\ Len(store["F1"]) = 3

\* the immutable members of the last register call
ImmutableOf(mems) == {i \in 1..Len(mems) : Shape(mems[i].mem) = "ImmutableField"}

(* C5 (as stated): after a register call that bound an immutable field f,   *)
(* the type tag's table has no entry named set_f.                          *)
C5_NoSetterEntry ==
    (last.op = "register" /\ proc = "running") =>
        \A i \in ImmutableOf(last.mems) :
            SetterName(last.mems[i].name) \notin DOMAIN registry[last.name]

\* another member of the call writes the key set_<name of member i>
SetterKeyTaken(mems, i) ==
    \E j \in 1..Len(mems) :
        /\ j # i
        /\ \/ mems[j].name = SetterName(mems[i].name)
           \/ mems[j].name = mems[i].name /\ Shape(mems[j].mem) = "MutableField"

(* C5 (amended): binding an immutable field f installs the getter entry f   *)
(* and nothing else: no setter wrapper for an immutable member is ever put *)
(* in a store, and the entry set_f is left as it was (absent if it was     *)
(* absent) unless another member of the same call is named set_f or is a   *)
(* mutable field also named f.                                             *)
C5_GetterOnly ==
    [][Registered =>
          LET n == last'.name
              mems == last'.mems
          IN  /\ \A f \in Stores : \A j \in 1..Len(store'[f]) :
                    Shape(store'[f][j].mem) = "ImmutableField" =>
                        store'[f][j].kind = "getter"
              /\ \A i \in ImmutableOf(mems) :
                    ~SetterKeyTaken(mems, i) =>
                        rawget(registry'[n], SetterName(mems[i].name)) =
                            rawget(registry[n], SetterName(mems[i].name))]_vars

\* const member k bound as "x" next to a method "y": a getter and no set_x
C5_Witness ==
    /\ proc = "running"
    /\ last.op = "register"
    /\ last.mems = <<[name |-> "x", mem |-> "k"], [name |-> "y", mem |-> "bump"]>>
    /\ rawget(registry["A"], "x") = Closure("F1", 1)
    /\ store["F1"][1] = [cls |-> "T1", kind |-> "getter", mem |-> "k"]
    /\ "set_x" \notin DOMAIN registry["A"]

(* C3: a call of the constructor entry point new with arguments matching    *)
(* the registered signature returns exactly one value: the instance it     *)
(* created, tagged with the class's type tag, whose state is that of       *)
(* direct native construction from the same arguments in the same order.   *)
C3_NewInstance ==
    last.op = "new" =>
        /\ last.nret = 1
        /\ last.inst = Len(heap)
        /\ HasMetatable(className[last.cls])
        /\ heap[last.inst] = [cls |-> last.cls,
                              tag |-> className[last.cls],
                              obj |-> CppClass(last.args[1], last.args[2])]

\* new(0, 1): the arguments differ, so their order shows in the instance
C3_Witness ==
    /\ last.op = "new"
    /\ last.args = <<0, 1>>
    /\ heap[last.inst].obj.x = 0 /\ heap[last.inst].obj.y = 1

\* what a script's call  key(inst)  returns when the entry is a synthesized getter
GetResult(inst, key) ==
    LET e == Lookup(inst, key)
    IN  IF e.kind = "closure" /\ Callee(e).kind = "getter" /\ Callee(e).cls = inst.cls
        THEN [ok |-> TRUE, val |-> getter(Callee(e).mem, inst.obj)]
        ELSE [ok |-> FALSE, val |-> 0]

FieldNames == {"x", "y"}

\* the setter call of a step changed nothing but the field its wrapper is for
OnlyThatField ==
    LET i == last'.inst
        c == Callee(Lookup(heap[i], last'.key))
    IN  /\ Len(heap') = Len(heap)
        /\ \A j \in 1..Len(heap) : j # i => heap'[j] = heap[j]
        /\ heap'[i].cls = heap[i].cls /\ heap'[i].tag = heap[i].tag
        /\ \A fld \in Fields \ {c.mem} : heap'[i].obj[fld] = heap[i].obj[fld]

(* C4 (as stated): for a mutable field bound under the name f, after        *)
(* set_f(instance, v) the call f(instance) returns v, and the setter       *)
(* changes no other field of the instance.                                 *)
C4_RoundTripByName ==
    [][last'.op = "set" =>
          /\ OnlyThatField
          /\ \A f \in FieldNames :
                SetterName(f) = last'.key =>
                    GetResult(heap'[last'.inst], f) = [ok |-> TRUE, val |-> last'.val]]_vars

\* the entry f is the getter that was bound together with the setter entry set_f
PairIntact(inst, f) ==
    LET e == Lookup(inst, SetterName(f))
    IN  Lookup(inst, f) = Closure(e.a, e.b + 1)

(* C4 (amended): for a mutable field bound under the name f whose entries   *)
(* set_f and f are still the pair that binding installed (no later member  *)
(* of the same name has overwritten the getter entry), after               *)
(* set_f(instance, v) the call f(instance) returns v; and in every case    *)
(* the setter changes no other field of the instance and no other instance.*)
C4_RoundTrip ==
    [][last'.op = "set" =>
          /\ OnlyThatField
          /\ \A f \in FieldNames :
                (SetterName(f) = last'.key /\ PairIntact(heap[last'.inst], f)) =>
                    GetResult(heap'[last'.inst], f) = [ok |-> TRUE, val |-> last'.val]]_vars

\* set_x(instance, 1) on an instance built with x = 0, the pair set_x / x intact
C4_Witness ==
    /\ last.op = "set" /\ last.key = "set_x" /\ last.val = 1
    /\ PairIntact(heap[last.inst], "x")
    /\ heap[last.inst].obj = [x |-> 1, y |-> 0, k |-> 0]
    /\ GetResult(heap[last.inst], "x") = [ok |-> TRUE, val |-> 1]
====
